---- MODULE Spec2Model ----
(***************************************************************************)
(* A model of ArbitrageBot (arbitrage_bot.py): the order-book handler with *)
(* its two scans, the risk gates of handle_order, the batch submission of  *)
(* place_orders, the reconciliation handlers and the periodic refresher.   *)
(*                                                                         *)
(* Decimal amounts are exact integers at a fixed scale.  Prices, sizes and *)
(* balances are integers; a fee rate is an integer number of 1/FeeDen, so  *)
(* a profit is kept multiplied by FeeDen; balance_reserved_pct is an       *)
(* integer number of 1/PctDen.  Every comparison of the source is made on  *)
(* both sides at the same scale, so it is the comparison Decimal makes.    *)
(***************************************************************************)
EXTENDS Integers, Sequences, FiniteSets, TLC

VARIABLES
    cfg,                    \* self.cfg, fixed after load_config
    best_bid,               \* self.best_bid        (None or Some(price))
    best_bid_qty,           \* self.best_bid_qty
    best_ask,               \* self.best_ask
    best_ask_qty,           \* self.best_ask_qty
    available_balance_usd,  \* self.available_balance_usd
    open_batches,           \* self.open_batches: batch id -> [buy, sell]
    has_open_position,      \* self.has_open_position
    last_position_pnl,      \* self.last_position_pnl
    open_position_price,    \* self.open_position_price
    book,                   \* the on_order_book coroutines, one record each
    orders_task,            \* the on_order_update coroutine
    account_task,           \* the on_account_update coroutine
    refresher,              \* run() and the balance_refresher task it creates
    next_batch,             \* the number of batch ids uuid4 has produced, plus 1
    failed,                 \* batch ids whose submit_orders_batch raised
    exception,              \* the coroutine the latest step left by an exception
    call,                   \* a direct call of one method, as a test makes it
    captured                \* what the test captured of the direct call

vars == <<cfg, best_bid, best_bid_qty, best_ask, best_ask_qty,
          available_balance_usd, open_batches, has_open_position,
          last_position_pnl, open_position_price, book, orders_task,
          account_task, refresher, next_batch, failed, exception, call,
          captured>>

engine_vars == <<best_bid, best_bid_qty, best_ask, best_ask_qty,
                 available_balance_usd, open_batches, has_open_position,
                 last_position_pnl, open_position_price, book, orders_task,
                 account_task, refresher, next_batch, failed, exception>>

----------------------------------------------------------------------------
(* Optional values and Decimal parsing *)

None == << >>
Some(v) == <<v>>
IsSome(o) == o # None
Val(o) == o[1]

\* min() of two Decimals.
Min(a, b) == IF b < a THEN b ELSE a

\* Decimal(x) of a raw feed field: Some(n) parses to n, None (a missing or
\* non-numeric field) raises.
Parses(raw) == IsSome(raw)
Decimal(raw) == Val(raw)

\* The scale of the fee fractions: a fee rate f stands for f / FeeDen.
FeeDen == 10
\* The scale of balance_reserved_pct: p stands for p / PctDen.
PctDen == 2

----------------------------------------------------------------------------
(* scan_full_book *)

\* One snapshot level [price, size] parsed by the try block of the pair loop.
LevelOK(level) == Parses(level.price) /\ Parses(level.size)

\* long_profit and short_profit of a (bid, ask) pair, times FeeDen.
FullLongProfit(bid_price, ask_price, size, c) ==
    FeeDen * (bid_price - ask_price) * size
        - ask_price * size * c.taker_fee_pct
        - bid_price * size * c.maker_fee_pct

FullShortProfit(bid_price, ask_price, size, c) ==
    FeeDen * (ask_price - bid_price) * size
        - bid_price * size * c.taker_fee_pct
        - ask_price * size * c.maker_fee_pct

\* The comparison with min_profit_usd of lines 246-247 and 300-303.
MutProfitOK(profit, c) == profit > FeeDen * c.min_profit_usd
ProfitOK(profit, c) == profit >= FeeDen * c.min_profit_usd

Candidate(price_buy, price_sell, size, direction) ==
    [price_buy |-> price_buy, price_sell |-> price_sell,
     size |-> size, direction |-> direction]

\* The loop body with the two branches of lines 248 and 251 exchanged.
MutPairCall(bid, ask, c) ==
    IF ~LevelOK(bid) \/ ~LevelOK(ask) THEN << >>
    ELSE LET bid_price == Decimal(bid.price)
             ask_price == Decimal(ask.price)
             size      == Min(Decimal(bid.size), Decimal(ask.size))
         IN  IF ask_price >= bid_price + c.min_profit
                /\ ProfitOK(FullShortProfit(bid_price, ask_price, size, c), c)
             THEN << Candidate(bid_price, ask_price, size, "short") >>
             ELSE IF bid_price >= ask_price + c.min_profit
                     /\ ProfitOK(FullLongProfit(bid_price, ask_price, size, c),
                                 c)
             THEN << Candidate(ask_price, bid_price, size, "long") >>
             ELSE << >>

\* The handle_order call, if any, the loop body makes for one pair.
PairCall(bid, ask, c) ==
    IF ~LevelOK(bid) \/ ~LevelOK(ask) THEN << >>
    ELSE LET bid_price == Decimal(bid.price)
             bid_size  == Decimal(bid.size)
             ask_price == Decimal(ask.price)
             ask_size  == Decimal(ask.size)
             size      == Min(bid_size, ask_size)
             profit_long_ok  ==
                 ProfitOK(FullLongProfit(bid_price, ask_price, size, c), c)
             profit_short_ok ==
                 ProfitOK(FullShortProfit(bid_price, ask_price, size, c), c)
         IN  IF bid_price >= ask_price + c.min_profit /\ profit_long_ok
             THEN << Candidate(ask_price, bid_price, size, "long") >>
             ELSE IF ask_price >= bid_price + c.min_profit /\ profit_short_ok
             THEN << Candidate(bid_price, ask_price, size, "short") >>
             ELSE << >>

\* The nested loops from pair (i, j) on: the handle_order calls made, in order.
\* The return after a call ends both loops.
RECURSIVE MutScanPairs(_, _, _, _, _)
MutScanPairs(bids, asks, i, j, c) ==
    IF j > Len(asks) THEN << >>
    ELSE IF i > Len(bids) THEN MutScanPairs(bids, asks, 1, j + 1, c)
    ELSE LET made == PairCall(bids[i], asks[j], c)
         IN  IF made # << >> THEN made
             ELSE MutScanPairs(bids, asks, i + 1, j, c)

RECURSIVE ScanPairs(_, _, _, _, _)
ScanPairs(bids, asks, i, j, c) ==
    IF i > Len(bids) THEN << >>
    ELSE IF j > Len(asks) THEN ScanPairs(bids, asks, i + 1, 1, c)
    ELSE LET made == PairCall(bids[i], asks[j], c)
         IN  IF made # << >> THEN made
             ELSE ScanPairs(bids, asks, i, j + 1, c)

\* scan_full_book(bids, asks): the handle_order calls it makes.
MutScanFullBook(bids, asks, c, hop) ==
    IF bids = << >> \/ asks = << >> THEN << >>
    ELSE ScanPairs(bids, asks, 1, 1, c)
ScanFullBook(bids, asks, c, hop) ==
    IF bids = << >> \/ asks = << >> THEN << >>
    ELSE IF hop THEN << >>
    ELSE ScanPairs(bids, asks, 1, 1, c)

----------------------------------------------------------------------------
(* scan_inversions *)

\* One insert entry parsed by the try block: price, size and side present.
EntryOK(entry) ==
    Parses(entry.price) /\ Parses(entry.size) /\ entry.side # "missing"

InvLongProfit(price_buy, price_sell, size, c) ==
    FeeDen * (price_sell - price_buy) * size
        - (price_buy * size * c.taker_fee_pct
           + price_sell * size * c.maker_fee_pct)

MutInvShortProfit(price_buy, price_sell, size, c) ==
    FeeDen * (price_sell - price_buy) * size
        - (price_buy * size * c.taker_fee_pct
           + price_sell * size * c.maker_fee_pct)
InvShortProfit(price_buy, price_sell, size, c) ==
    FeeDen * (price_sell - price_buy) * size
        - (price_sell * size * c.taker_fee_pct
           + price_buy * size * c.maker_fee_pct)

\* The early return of line 288.
MutNoInversion(price_buy, price_sell) == price_sell < price_buy
NoInversion(price_buy, price_sell) == price_sell <= price_buy

\* Lines 281-286: <<price_buy, price_sell>> of the two entries, << >> when
\* they are not one BUY and one SELL.
MutLegs(s1, p1, s2, p2) ==
    IF s1 = "BUY" /\ s2 = "SELL" THEN <<p1, p2>>
    ELSE IF s1 = "SELL" /\ s2 = "BUY" THEN <<p1, p2>>
    ELSE << >>
Legs(s1, p1, s2, p2) ==
    IF s1 = "BUY" /\ s2 = "SELL" THEN <<p1, p2>>
    ELSE IF s1 = "SELL" /\ s2 = "BUY" THEN <<p2, p1>>
    ELSE << >>

\* scan_inversions(inserts): the handle_order calls it makes.
ScanInversions(inserts, c) ==
    IF Len(inserts) < 2 THEN << >>
    ELSE LET first  == inserts[1]
             second == inserts[2]
         IN
         IF ~EntryOK(first) \/ ~EntryOK(second) THEN << >>
         ELSE LET p1 == Decimal(first.price)
                  q1 == Decimal(first.size)
                  s1 == first.side
                  p2 == Decimal(second.price)
                  q2 == Decimal(second.size)
                  s2 == second.side
                  size == Min(q1, q2)
                  legs == Legs(s1, p1, s2, p2)
              IN
              IF legs = << >> THEN << >>
              ELSE LET price_buy    == legs[1]
                       price_sell   == legs[2]
                       long_profit  ==
                           InvLongProfit(price_buy, price_sell, size, c)
                       short_profit ==
                           InvShortProfit(price_buy, price_sell, size, c)
                   IN
                   IF NoInversion(price_buy, price_sell) THEN << >>
                   ELSE IF long_profit >= short_profit
                           /\ ProfitOK(long_profit, c)
                   THEN << Candidate(price_buy, price_sell, size, "long") >>
                   ELSE IF ProfitOK(short_profit, c)
                   THEN << Candidate(price_buy, price_sell, size, "short") >>
                   ELSE << >>

----------------------------------------------------------------------------
(* The market view: on_order_book's snapshot assignment and insert loop *)

View(bid, bid_qty, ask, ask_qty) ==
    [best_bid |-> bid, best_bid_qty |-> bid_qty,
     best_ask |-> ask, best_ask_qty |-> ask_qty]

\* The four assignments with the two sizes exchanged.
MutApplySnapshot(v, bids, asks) ==
    [view |-> View(bids[1].price, asks[1].size, asks[1].price, bids[1].size),
     raised |-> ~(Parses(bids[1].price) /\ Parses(bids[1].size)
                  /\ Parses(asks[1].price) /\ Parses(asks[1].size))]

\* Lines 190-193: four assignments in order, each parsing one field of the top
\* level; a field that does not parse raises and leaves the later ones undone.
ApplySnapshot(v, bids, asks) ==
    LET bid == bids[1]
        ask == asks[1]
    IN  IF ~Parses(bid.price) THEN [view |-> v, raised |-> TRUE]
        ELSE LET v1 == [v EXCEPT !.best_bid = Some(Decimal(bid.price))] IN
        IF ~Parses(bid.size) THEN [view |-> v1, raised |-> TRUE]
        ELSE LET v2 == [v1 EXCEPT !.best_bid_qty = Some(Decimal(bid.size))] IN
        IF ~Parses(ask.price) THEN [view |-> v2, raised |-> TRUE]
        ELSE LET v3 == [v2 EXCEPT !.best_ask = Some(Decimal(ask.price))] IN
        IF ~Parses(ask.size) THEN [view |-> v3, raised |-> TRUE]
        ELSE [view |-> [v3 EXCEPT !.best_ask_qty = Some(Decimal(ask.size))],
              raised |-> FALSE]

\* Lines 201-213: the insert rule for one entry.
MutApplyInsert(v, entry) ==
    IF ~EntryOK(entry) THEN v
    ELSE LET price == Decimal(entry.price)
             size  == Decimal(entry.size)
             side  == entry.side
         IN  IF side = "BUY"
                /\ (v.best_bid = None \/ price >= Val(v.best_bid))
             THEN [v EXCEPT !.best_bid = Some(price),
                            !.best_bid_qty = Some(size)]
             ELSE IF side = "SELL"
                     /\ (v.best_ask = None \/ price <= Val(v.best_ask))
             THEN [v EXCEPT !.best_ask = Some(price),
                            !.best_ask_qty = Some(size)]
             ELSE v
ApplyInsert(v, entry) ==
    IF ~EntryOK(entry) THEN v
    ELSE LET price == Decimal(entry.price)
             size  == Decimal(entry.size)
             side  == entry.side
         IN  IF side = "BUY"
                /\ (v.best_bid = None \/ price > Val(v.best_bid))
             THEN [v EXCEPT !.best_bid = Some(price),
                            !.best_bid_qty = Some(size)]
             ELSE IF side = "SELL"
                     /\ (v.best_ask = None \/ price < Val(v.best_ask))
             THEN [v EXCEPT !.best_ask = Some(price),
                            !.best_ask_qty = Some(size)]
             ELSE v

\* Line 200: the loop over the inserts, from entry k on.
RECURSIVE MutApplyInserts(_, _, _)
MutApplyInserts(v, inserts, k) ==
    IF k > Len(inserts) \/ ~EntryOK(inserts[k]) THEN v
    ELSE MutApplyInserts(ApplyInsert(v, inserts[k]), inserts, k + 1)

RECURSIVE ApplyInserts(_, _, _)
ApplyInserts(v, inserts, k) ==
    IF k > Len(inserts) THEN v
    ELSE ApplyInserts(ApplyInsert(v, inserts[k]), inserts, k + 1)

----------------------------------------------------------------------------
(* refresh_balance and refresh_positions *)

\* fetch_account_summary: it raises, or returns a summary whose
\* free_collateral is absent (None) or a numeric string.
Raised == [raised |-> TRUE]
Summary(free_collateral) ==
    [raised |-> FALSE, free_collateral |-> free_collateral]

\* Lines 122-123: the balance after a summary came back.
RefreshBalance(summary, balance) ==
    IF IsSome(summary.free_collateral)
    THEN Decimal(summary.free_collateral)
    ELSE balance

\* fetch_positions: it raises, or returns the results list.
Positions(results) == [raised |-> FALSE, results |-> results]

TheMarket == "ETH-USD-PERP"

\* Lines 136-166: the loop over results from position k on.  st holds
\* has_open_position, open_position_price, latest_time, latest_pnl and the
\* last_position_pnl to store; an OPEN position of the market returns at once.
RECURSIVE PositionsLoop(_, _, _)
PositionsLoop(results, k, st) ==
    IF k > Len(results)
    THEN IF IsSome(st.latest_pnl)
         THEN [st EXCEPT !.last_position_pnl = st.latest_pnl]
         ELSE st
    ELSE LET pos == results[k] IN
         IF pos.market # TheMarket THEN PositionsLoop(results, k + 1, st)
         ELSE IF pos.status = "OPEN"
         THEN [st EXCEPT !.has_open_position = TRUE,
                         !.open_position_price = pos.price]
         ELSE IF pos.status = "CLOSED"
                 /\ IsSome(pos.closed_at)
                 /\ (st.latest_time = None
                     \/ Val(pos.closed_at) > Val(st.latest_time))
         THEN PositionsLoop(results, k + 1,
                  [st EXCEPT !.latest_time = pos.closed_at,
                             !.latest_pnl = Some(pos.pnl)])
         ELSE PositionsLoop(results, k + 1, st)

\* refresh_positions after fetch_positions came back: the three fields.
MutRefreshPositionsKeep(data, hop, price, pnl) ==
    IF data.raised
    THEN [has_open_position |-> hop, open_position_price |-> price,
          last_position_pnl |-> pnl]
    ELSE LET st == PositionsLoop(data.results, 1,
                       [has_open_position |-> hop,
                        open_position_price |-> price,
                        latest_time |-> None, latest_pnl |-> None,
                        last_position_pnl |-> pnl])
         IN  [has_open_position |-> st.has_open_position,
              open_position_price |-> st.open_position_price,
              last_position_pnl |-> st.last_position_pnl]
MutRefreshPositionsStale(data, hop, price, pnl) ==
    IF data.raised
    THEN [has_open_position |-> hop, open_position_price |-> price,
          last_position_pnl |-> pnl]
    ELSE LET st == PositionsLoop(data.results, 1,
                       [has_open_position |-> FALSE,
                        open_position_price |-> price,
                        latest_time |-> None, latest_pnl |-> None,
                        last_position_pnl |-> pnl])
         IN  [has_open_position |-> st.has_open_position,
              open_position_price |-> st.open_position_price,
              last_position_pnl |-> st.last_position_pnl]
MutRefreshPositionsReset(data, hop, price, pnl) ==
    LET st == PositionsLoop(IF data.raised THEN << >> ELSE data.results, 1,
                  [has_open_position |-> FALSE, open_position_price |-> None,
                   latest_time |-> None, latest_pnl |-> None,
                   last_position_pnl |-> pnl])
    IN  [has_open_position |-> st.has_open_position,
         open_position_price |-> st.open_position_price,
         last_position_pnl |-> st.last_position_pnl]
RefreshPositions(data, hop, price, pnl) ==
    IF data.raised
    THEN [has_open_position |-> hop, open_position_price |-> price,
          last_position_pnl |-> pnl]
    ELSE LET st == PositionsLoop(data.results, 1,
                       [has_open_position |-> FALSE,
                        open_position_price |-> None,
                        latest_time |-> None, latest_pnl |-> None,
                        last_position_pnl |-> pnl])
         IN  [has_open_position |-> st.has_open_position,
              open_position_price |-> st.open_position_price,
              last_position_pnl |-> st.last_position_pnl]

----------------------------------------------------------------------------
(* handle_order's gates, place_orders' bookkeeping, on_order_update *)

\* Line 330.
MutPositionGate(hop) == FALSE
PositionGate(hop) == hop

\* Lines 339-340: "order_size" in cfg clips the size.
MutClipSize(size, c) == size
ClipSize(size, c) ==
    IF IsSome(c.order_size) THEN Min(size, Val(c.order_size)) ELSE size

\* Line 342.
FirstPrice(order) ==
    IF order.direction = "long" THEN order.price_buy ELSE order.price_sell

\* Lines 343-344: margin_needed > available_balance_usd * balance_reserved_pct,
\* both sides times leverage * PctDen (leverage > 0).
MutMarginExceeded(first_price, size, balance, c) ==
    first_price * size * PctDen >= balance * c.balance_reserved_pct * c.leverage
MarginExceeded(first_price, size, balance, c) ==
    first_price * size * PctDen > balance * c.balance_reserved_pct * c.leverage

\* Line 347.
MutCapReached(batches, c) == Cardinality(DOMAIN batches) > c.max_open_orders
CapReached(batches, c) == Cardinality(DOMAIN batches) >= c.max_open_orders

\* The cap looked at before the margin.
MutHandleOrderDecision(order, balance, hop, batches, c) ==
    IF PositionGate(hop) THEN "PositionOpen"
    ELSE IF CapReached(batches, c) THEN "TooManyOpenOrders"
    ELSE IF MarginExceeded(FirstPrice(order), ClipSize(order.size, c),
                           balance, c)
    THEN "InsufficientMargin"
    ELSE "place"

\* Lines 330-351 in order: the rejection, or "place" when place_orders is
\* called.  order carries the arguments of handle_order.
HandleOrderDecision(order, balance, hop, batches, c) ==
    IF PositionGate(hop) THEN "PositionOpen"
    ELSE IF MarginExceeded(FirstPrice(order), ClipSize(order.size, c),
                           balance, c)
    THEN "InsufficientMargin"
    ELSE IF CapReached(batches, c) THEN "TooManyOpenOrders"
    ELSE "place"

\* The client ids of lines 364 and 373.
ClientId(batch_id, leg) == <<batch_id, leg>>
BatchIds(batch_id) ==
    [buy |-> ClientId(batch_id, "buy"), sell |-> ClientId(batch_id, "sell")]

NoBatches == [b \in {} |-> BatchIds(b)]

\* Lines 356-396: one Order of the list handed to submit_orders_batch.
Order(side, size, limit_price, batch_id, leg) ==
    [market |-> TheMarket, order_type |-> "Limit", order_side |-> side,
     size |-> size, limit_price |-> limit_price,
     client_id |-> ClientId(batch_id, leg), instruction |-> "GTC"]

\* The list orders of place_orders(price_buy, price_sell, size, direction)
\* with the batch id uuid4 returned.
Orders(order, batch_id) ==
    LET order_buy  == Order("BUY", order.size, order.price_buy, batch_id, "buy")
        order_sell ==
            Order("SELL", order.size, order.price_sell, batch_id, "sell")
    IN  IF order.direction = "long" THEN <<order_buy, order_sell>>
        ELSE <<order_sell, order_buy>>

\* Line 401.
Register(batches, batch_id) ==
    [b \in DOMAIN batches \cup {batch_id} |->
        IF b = batch_id THEN BatchIds(batch_id) ELSE batches[b]]

\* Lines 416-417: the except clause logs and leaves open_batches alone.
MutOnSubmitRaised(batches, batch_id) == Register(batches, batch_id)
OnSubmitRaised(batches, batch_id) == batches

\* Lines 176-178: the batches left after an order-status event.
MutReconcile(batches, client_id, status) ==
    IF status \in {"FILLED", "CANCELLED"}
       /\ \E b \in DOMAIN batches :
              client_id \in {Some(batches[b].buy), Some(batches[b].sell)}
    THEN NoBatches
    ELSE batches
\* The status not looked at.
MutReconcileAnyStatus(batches, client_id, status) ==
    LET gone == {b \in DOMAIN batches :
                    client_id \in {Some(batches[b].buy),
                                   Some(batches[b].sell)}}
    IN  [b \in DOMAIN batches \ gone |-> batches[b]]
Reconcile(batches, client_id, status) ==
    LET gone == {b \in DOMAIN batches :
                    /\ client_id \in {Some(batches[b].buy),
                                      Some(batches[b].sell)}
                    /\ status \in {"FILLED", "CANCELLED"}}
    IN  [b \in DOMAIN batches \ gone |-> batches[b]]

----------------------------------------------------------------------------
(* Bounds and the inputs the environment can deliver *)

\* uuid4 is called at most MaxBatches times.
MaxBatches == 2
\* At most MaxSuspended of the handlers the websocket client calls are
\* suspended in an await at once; a further event waits to be delivered.
MaxSuspended == 2

Level(price, size) == [price |-> Some(price), size |-> Some(size)]
Insert(side, price, size) ==
    [side |-> side, price |-> Some(price), size |-> Some(size)]
Message(bids, asks, inserts) ==
    [bids |-> bids, asks |-> asks, inserts |-> inserts]

\* The book events delivered to the running bot.
BookMessages ==
    { Message(<<Level(3, 2)>>, <<Level(2, 2)>>, << >>),
      Message(<< >>, << >>, <<Insert("BUY", 2, 1), Insert("SELL", 3, 1)>>),
      Message(<<Level(3, 1)>>, <<Level(2, 1)>>,
              <<Insert("SELL", 3, 1), Insert("BUY", 2, 1)>>),
      Message(<< >>, << >>, <<Insert("BUY", 3, 1)>>) }

\* What fetch_account_summary can answer.
AccountSummaries == {Raised, Summary(None), Summary(Some(2))}

Position(market, status, price, closed_at, pnl) ==
    [market |-> market, status |-> status, price |-> price,
     closed_at |-> closed_at, pnl |-> pnl]

\* What fetch_positions can answer.
PositionAnswers ==
    { Raised,
      Positions(<< >>),
      Positions(<<Position(TheMarket, "OPEN", Some(2), None, 0)>>) }

\* The order-status events: a leg of a batch whose request was dispatched,
\* an id of no batch, or no client id.
ClientIds ==
    {None, Some(ClientId(0, "buy"))}
        \cup {Some(ClientId(b, leg)) : b \in 1..(next_batch - 1),
                                       leg \in {"buy", "sell"}}
Statuses == {"NEW", "FILLED", "CANCELLED"}

\* The configurations load_config can produce that the running bot is
\* checked with.
Config(size, lev, cap, pct, floor, spread, taker, maker) ==
    [order_size |-> size, leverage |-> lev, max_open_orders |-> cap,
     balance_reserved_pct |-> pct, min_profit_usd |-> floor,
     min_profit |-> spread, taker_fee_pct |-> taker, maker_fee_pct |-> maker]

EngineConfigs ==
    { Config(None, 1, 1, 2, 1, 0, 0, 0),
      Config(Some(1), 2, 2, 2, 1, 0, 0, 0) }

----------------------------------------------------------------------------
(* The coroutines *)

BookTasks == {"b1", "b2"}

NoMessage == Message(<< >>, << >>, << >>)
NoOrder == Candidate(0, 0, 0, "none")

\* A book coroutine: idle, or suspended in handle_order's refresh_balance, or
\* in place_orders' submit_orders_batch.  phase tells which scan called
\* handle_order: "full" (line 194) or "inv" (line 198).
Idle ==
    [pc |-> "idle", msg |-> NoMessage, phase |-> "none", order |-> NoOrder,
     batch_id |-> 0]
InHandleOrder(msg, phase, order) ==
    [pc |-> "refresh_balance", msg |-> msg, phase |-> phase, order |-> order,
     batch_id |-> 0]

CurrentView == View(best_bid, best_bid_qty, best_ask, best_ask_qty)

SetView(v) ==
    /\ best_bid' = v.best_bid
    /\ best_bid_qty' = v.best_bid_qty
    /\ best_ask' = v.best_ask
    /\ best_ask_qty' = v.best_ask_qty

\* on_order_book from line 196 on: scan_inversions, then the insert loop
\* unless the coroutine is suspended in handle_order.
FromInserts(v, msg, c) ==
    LET made == IF msg.inserts # << >>
                THEN ScanInversions(msg.inserts, c) ELSE << >>
    IN  IF made # << >>
        THEN [view |-> v, task |-> InHandleOrder(msg, "inv", made[1]),
              raised |-> FALSE]
        ELSE [view |-> ApplyInserts(v, msg.inserts, 1), task |-> Idle,
              raised |-> FALSE]

\* on_order_book after handle_order returned to the scan that called it.
AfterHandleOrder(v, task, c) ==
    IF task.phase = "full"
    THEN FromInserts(v, task.msg, c)
    ELSE [view |-> ApplyInserts(v, task.msg.inserts, 1), task |-> Idle,
          raised |-> FALSE]

\* on_order_book from its first line to its first suspension or its end.
FromStart(v, msg, c, hop) ==
    IF msg.bids # << >> /\ msg.asks # << >>
    THEN LET snap == ApplySnapshot(v, msg.bids, msg.asks) IN
         IF snap.raised
         THEN [view |-> snap.view, task |-> Idle, raised |-> TRUE]
         ELSE LET made == ScanFullBook(msg.bids, msg.asks, c, hop) IN
              IF made # << >>
              THEN [view |-> snap.view,
                    task |-> InHandleOrder(msg, "full", made[1]),
                    raised |-> FALSE]
              ELSE FromInserts(snap.view, msg, c)
    ELSE FromInserts(v, msg, c)

\* run() has subscribed the handlers.
Running == refresher \in {"balance", "positions", "sleep", "dead"}

\* The handler coroutines suspended in an await.
Suspended ==
    Cardinality({t \in BookTasks : book[t].pc # "idle"})
        + (IF orders_task # "idle" THEN 1 ELSE 0)
        + (IF account_task # "idle" THEN 1 ELSE 0)

\* An event can be delivered to a handler.
Deliverable == Running /\ Suspended < MaxSuspended

\* A book event arrives: on_order_book runs to its first await.  A top level
\* that does not parse raises out of the handler.
OnOrderBook(t, msg) ==
    /\ Deliverable
    /\ book[t].pc = "idle"
    /\ LET r == FromStart(CurrentView, msg, cfg, has_open_position) IN
       /\ SetView(r.view)
       /\ book' = [book EXCEPT ![t] = r.task]
       /\ exception' = IF r.raised THEN "on_order_book" ELSE "none"
    /\ UNCHANGED <<cfg, available_balance_usd, open_batches,
                   has_open_position, last_position_pnl, open_position_price,
                   orders_task, account_task, refresher, next_batch, failed,
                   call, captured>>

\* handle_order resumes after refresh_balance: the gates, and on acceptance
\* place_orders up to the dispatch of submit_orders_batch.  refresh_balance
\* has no try: a raise of fetch_account_summary leaves handle_order, the scan
\* and on_order_book.
HandleOrder(t, summary) ==
    /\ book[t].pc = "refresh_balance"
    /\ IF summary.raised
       THEN /\ book' = [book EXCEPT ![t] = Idle]
            /\ exception' = "handle_order"
            /\ UNCHANGED <<best_bid, best_bid_qty, best_ask, best_ask_qty,
                           available_balance_usd, next_batch, captured>>
       ELSE LET balance == RefreshBalance(summary, available_balance_usd)
                decision == HandleOrderDecision(book[t].order, balance,
                                has_open_position, open_batches, cfg)
            IN  /\ available_balance_usd' = balance
                /\ exception' = "none"
                /\ captured' = IF call.fn = "handle_order"
                               THEN <<decision>> ELSE captured
                /\ IF decision = "place"
                   THEN /\ next_batch <= MaxBatches
                        /\ book' = [book EXCEPT ![t] =
                              [@ EXCEPT !.pc = "submit_orders_batch",
                                        !.order.size = ClipSize(@, cfg),
                                        !.batch_id = next_batch]]
                        /\ next_batch' = next_batch + 1
                        /\ UNCHANGED <<best_bid, best_bid_qty, best_ask,
                                       best_ask_qty>>
                   ELSE LET r == AfterHandleOrder(CurrentView, book[t], cfg)
                        IN  /\ SetView(r.view)
                            /\ book' = [book EXCEPT ![t] = r.task]
                            /\ UNCHANGED next_batch
    /\ UNCHANGED <<cfg, open_batches, has_open_position, last_position_pnl,
                   open_position_price, orders_task, account_task, refresher,
                   failed, call>>

\* place_orders resumes after submit_orders_batch returned (ok) or raised.
PlaceOrders(t, ok) ==
    /\ book[t].pc = "submit_orders_batch"
    /\ IF ok
       THEN /\ open_batches' = Register(open_batches, book[t].batch_id)
            /\ UNCHANGED failed
       ELSE /\ open_batches' = OnSubmitRaised(open_batches, book[t].batch_id)
            /\ failed' = failed \cup {book[t].batch_id}
    /\ LET r == AfterHandleOrder(CurrentView, book[t], cfg) IN
       /\ SetView(r.view)
       /\ book' = [book EXCEPT ![t] = r.task]
    /\ exception' = "none"
    /\ UNCHANGED <<cfg, available_balance_usd, has_open_position,
                   last_position_pnl, open_position_price, orders_task,
                   account_task, refresher, next_batch, call, captured>>

SetPositions(data) ==
    LET r == RefreshPositions(data, has_open_position, open_position_price,
                              last_position_pnl)
    IN  /\ has_open_position' = r.has_open_position
        /\ open_position_price' = r.open_position_price
        /\ last_position_pnl' = r.last_position_pnl

\* An order-status event arrives: on_order_update up to refresh_positions.
OnOrderUpdate(client_id, status) ==
    /\ Deliverable
    /\ orders_task = "idle"
    /\ open_batches' = Reconcile(open_batches, client_id, status)
    /\ orders_task' = "fetch_positions"
    /\ exception' = "none"
    /\ UNCHANGED <<cfg, best_bid, best_bid_qty, best_ask, best_ask_qty,
                   available_balance_usd, has_open_position,
                   last_position_pnl, open_position_price, book,
                   account_task, refresher, next_batch, failed, call,
                   captured>>

\* on_order_update resumes after fetch_positions.
OrderUpdatePositions(data) ==
    /\ orders_task = "fetch_positions"
    /\ SetPositions(data)
    /\ orders_task' = "idle"
    /\ exception' = "none"
    /\ UNCHANGED <<cfg, best_bid, best_bid_qty, best_ask, best_ask_qty,
                   available_balance_usd, open_batches, book, account_task,
                   refresher, next_batch, failed, call, captured>>

\* An account event arrives: on_account_update awaits refresh_balance.
OnAccountUpdate ==
    /\ Deliverable
    /\ account_task = "idle"
    /\ account_task' = "fetch_account_summary"
    /\ exception' = "none"
    /\ UNCHANGED <<cfg, best_bid, best_bid_qty, best_ask, best_ask_qty,
                   available_balance_usd, open_batches, has_open_position,
                   last_position_pnl, open_position_price, book, orders_task,
                   refresher, next_batch, failed, call, captured>>

\* on_account_update resumes after fetch_account_summary; a raise ends it.
AccountUpdateBalance(summary) ==
    /\ account_task = "fetch_account_summary"
    /\ IF summary.raised
       THEN /\ account_task' = "idle"
            /\ exception' = "on_account_update"
            /\ UNCHANGED available_balance_usd
       ELSE /\ account_task' = "fetch_positions"
            /\ exception' = "none"
            /\ available_balance_usd' =
                   RefreshBalance(summary, available_balance_usd)
    /\ UNCHANGED <<cfg, best_bid, best_bid_qty, best_ask, best_ask_qty,
                   open_batches, has_open_position, last_position_pnl,
                   open_position_price, book, orders_task, refresher,
                   next_batch, failed, call, captured>>

\* on_account_update resumes after fetch_positions.
AccountUpdatePositions(data) ==
    /\ account_task = "fetch_positions"
    /\ SetPositions(data)
    /\ account_task' = "idle"
    /\ exception' = "none"
    /\ UNCHANGED <<cfg, best_bid, best_bid_qty, best_ask, best_ask_qty,
                   available_balance_usd, open_batches, book, orders_task,
                   refresher, next_batch, failed, call, captured>>

\* run() (lines 426-427) and balance_refresher resume after
\* fetch_account_summary.  A raise ends run() before it subscribes
\* ("exited"), and ends the refresher task ("dead").
RefresherBalance(summary) ==
    /\ refresher \in {"run_balance", "balance"}
    /\ IF summary.raised
       THEN /\ refresher' =
                   IF refresher = "run_balance" THEN "exited" ELSE "dead"
            /\ exception' =
                   IF refresher = "run_balance" THEN "run"
                   ELSE "balance_refresher"
            /\ UNCHANGED available_balance_usd
       ELSE /\ refresher' =
                   IF refresher = "run_balance" THEN "run_positions"
                   ELSE "positions"
            /\ exception' = "none"
            /\ available_balance_usd' =
                   RefreshBalance(summary, available_balance_usd)
    /\ UNCHANGED <<cfg, best_bid, best_bid_qty, best_ask, best_ask_qty,
                   open_batches, has_open_position, last_position_pnl,
                   open_position_price, book, orders_task, account_task,
                   next_batch, failed, call, captured>>

\* run() and balance_refresher resume after fetch_positions.
RefresherPositions(data) ==
    /\ refresher \in {"run_positions", "positions"}
    /\ SetPositions(data)
    /\ refresher' = IF refresher = "run_positions" THEN "balance" ELSE "sleep"
    /\ exception' = "none"
    /\ UNCHANGED <<cfg, best_bid, best_bid_qty, best_ask, best_ask_qty,
                   available_balance_usd, open_batches, book, orders_task,
                   account_task, next_batch, failed, call, captured>>

\* The sleep of balance_refresher ends.
RefresherTick ==
    /\ refresher = "sleep"
    /\ refresher' = "balance"
    /\ exception' = "none"
    /\ UNCHANGED <<cfg, best_bid, best_bid_qty, best_ask, best_ask_qty,
                   available_balance_usd, open_batches, has_open_position,
                   last_position_pnl, open_position_price, book, orders_task,
                   account_task, next_batch, failed, call, captured>>

\* No direct call: the bot runs under run().
NoCall == [fn |-> "run"]

\* The fields __init__ sets (lines 108-116), no coroutine started.
Constructed ==
    /\ best_bid = None
    /\ best_bid_qty = None
    /\ best_ask = None
    /\ best_ask_qty = None
    /\ available_balance_usd = 0
    /\ last_position_pnl = None
    /\ open_position_price = None
    /\ book = [t \in BookTasks |-> Idle]
    /\ orders_task = "idle"
    /\ account_task = "idle"
    /\ failed = {}
    /\ exception = "none"
    /\ captured = << >>

\* The state after __init__, run() about to start.
Init ==
    /\ cfg \in EngineConfigs
    /\ Constructed
    /\ open_batches = NoBatches
    /\ has_open_position = FALSE
    /\ refresher = "run_balance"
    /\ next_batch = 1
    /\ call = NoCall

Next ==
    \/ \E t \in BookTasks, msg \in BookMessages : OnOrderBook(t, msg)
    \/ \E t \in BookTasks, summary \in AccountSummaries :
           HandleOrder(t, summary)
    \/ \E t \in BookTasks, ok \in BOOLEAN : PlaceOrders(t, ok)
    \/ \E client_id \in ClientIds, status \in Statuses :
           OnOrderUpdate(client_id, status)
    \/ \E data \in PositionAnswers : OrderUpdatePositions(data)
    \/ OnAccountUpdate
    \/ \E summary \in AccountSummaries : AccountUpdateBalance(summary)
    \/ \E data \in PositionAnswers : AccountUpdatePositions(data)
    \/ \E summary \in AccountSummaries : RefresherBalance(summary)
    \/ \E data \in PositionAnswers : RefresherPositions(data)
    \/ RefresherTick

Spec == Init /\ [][Next]_vars

----------------------------------------------------------------------------
(* Direct calls of one method on a constructed bot, as the tests make them: *)
(* scan_full_book and scan_inversions with handle_order replaced by a stub *)
(* that captures its arguments, and on_order_update on given open_batches. *)

\* The longest bids, asks and inserts list of a direct call.
MaxDepth == 2

BadLevel == [price |-> None, size |-> Some(1)]
BidLevels == {Level(4, 1), Level(3, 2), Level(1, 1), Level(2, 0), BadLevel}
AskLevels ==
    {Level(2, 1), Level(1, 1), Level(3, 1), Level(4, 2),
     [price |-> Some(1), size |-> None]}

Entries ==
    {Insert(side, price, size) :
        side \in {"BUY", "SELL"}, price \in {1, 2, 3}, size \in {1, 2}}
    \cup {Insert("BUY", 2, 0), Insert("OTHER", 2, 1),
          [side |-> "SELL", price |-> None, size |-> Some(1)],
          [side |-> "missing", price |-> Some(3), size |-> Some(1)]}

\* The sequences over S of length at most n.
RECURSIVE SeqsUpTo(_, _)
SeqsUpTo(S, n) ==
    IF n = 0 THEN {<< >>}
    ELSE LET shorter == SeqsUpTo(S, n - 1)
         IN  shorter \cup {Append(q, x) : q \in shorter, x \in S}

ScanConfigs ==
    {Config(None, 1, 1, 2, min_profit_usd, min_profit, fees[1], fees[2]) :
        min_profit_usd \in {0, 1, 2}, min_profit \in {0, 1},
        fees \in {<<0, 0>>, <<1, -2>>, <<0, 1>>}}

FullBookCalls ==
    {[fn |-> "scan_full_book", bids |-> bids, asks |-> asks, done |-> FALSE] :
        bids \in SeqsUpTo(BidLevels, MaxDepth),
        asks \in SeqsUpTo(AskLevels, MaxDepth)}

InversionCalls ==
    {[fn |-> "scan_inversions", inserts |-> inserts, done |-> FALSE] :
        inserts \in SeqsUpTo(Entries, MaxDepth)}

\* open_batches after the batches of ids were registered.
RECURSIVE Registered(_)
Registered(ids) ==
    IF ids = {} THEN NoBatches
    ELSE LET b == CHOOSE x \in ids : TRUE
         IN  Register(Registered(ids \ {b}), b)

OrderUpdateCalls ==
    {[fn |-> "on_order_update", client_id |-> client_id, status |-> status,
      batches |-> Registered(ids)] :
        client_id \in {None, Some(ClientId(0, "buy"))}
            \cup {Some(ClientId(b, leg)) :
                     b \in 1..MaxBatches, leg \in {"buy", "sell"}},
        status \in Statuses,
        ids \in SUBSET (1..MaxBatches)}

\* handle_order called with given arguments, place_orders not replaced.
HandleOrderCalls ==
    {[fn |-> "handle_order",
      order |-> Candidate(price_buy, 3, size, direction), done |-> FALSE] :
        price_buy \in {1, 2}, size \in {1, 2, 3},
        direction \in {"long", "short"}}

\* The longest results list fetch_positions answers in a direct call.
MaxResults == 2

OtherMarket == "BTC-USD-PERP"

\* The positions fetch_positions can list: open, closed at time 1 or 2,
\* closed without a time, of another status, of another market.
ListedPositions ==
    { Position(TheMarket, "OPEN", Some(2), None, 0),
      Position(OtherMarket, "OPEN", Some(5), None, 0),
      Position(TheMarket, "CLOSED", None, Some(1), 3),
      Position(TheMarket, "CLOSED", None, Some(2), 4),
      Position(TheMarket, "CLOSED", None, None, 5),
      Position(TheMarket, "NEW", Some(4), None, 0) }

ListedAnswers ==
    {Raised} \cup {Positions(r) : r \in SeqsUpTo(ListedPositions, MaxResults)}

\* refresh_positions called twice, fetch_positions answering answers[1] and
\* then answers[2]; k counts the calls made.
RefreshPositionsCalls ==
    {[fn |-> "refresh_positions", answers |-> <<first, second>>, k |-> 0] :
        first \in ListedAnswers, second \in ListedAnswers}

\* A handle_order call as the stub sees it: its arguments, the scan that made
\* it and the market view at that moment.
Seen(order, scan, v) == [order |-> order, scan |-> scan, view |-> v]

\* on_order_book(message) with handle_order replaced by a stub: the view it
\* leaves, whether it raised, and the handle_order calls it made.
OnOrderBookStubbed(v, msg, c, hop) ==
    LET snapshot == msg.bids # << >> /\ msg.asks # << >>
        snap == IF snapshot THEN ApplySnapshot(v, msg.bids, msg.asks)
                ELSE [view |-> v, raised |-> FALSE]
    IN  IF snap.raised
        THEN [view |-> snap.view, raised |-> TRUE, made |-> << >>]
        ELSE LET full == IF snapshot
                         THEN ScanFullBook(msg.bids, msg.asks, c, hop)
                         ELSE << >>
                 inv  == IF msg.inserts # << >>
                         THEN ScanInversions(msg.inserts, c) ELSE << >>
             IN  [view |-> ApplyInserts(snap.view, msg.inserts, 1),
                  raised |-> FALSE,
                  made |-> [k \in 1..Len(full) |->
                               Seen(full[k], "full", snap.view)]
                           \o [k \in 1..Len(inv) |->
                                  Seen(inv[k], "inv", snap.view)]]

\* The book events of the direct calls: a first event that leaves no view, a
\* full view or half a view, then a second event with a snapshot of up to
\* MaxDepth levels a side or with up to MaxDepth inserts.
PriorMessages ==
    { Message(<< >>, << >>, << >>),
      Message(<<Level(2, 1)>>, <<Level(3, 1)>>, << >>),
      Message(<< >>, << >>, <<Insert("BUY", 2, 1)>>),
      Message(<< >>, << >>, <<Insert("SELL", 3, 2)>>) }

SnapBids == {Level(3, 1), Level(2, 2), BadLevel}
SnapAsks == {Level(2, 1), Level(4, 1), [price |-> Some(1), size |-> None]}

BookEntries ==
    { Insert("BUY", 3, 2), Insert("BUY", 2, 1),
      Insert("SELL", 2, 2), Insert("SELL", 3, 1),
      [side |-> "BUY", price |-> None, size |-> Some(1)],
      [side |-> "missing", price |-> Some(4), size |-> Some(1)] }

NextMessages ==
    {Message(bids, asks, inserts) :
        bids \in SeqsUpTo(SnapBids, MaxDepth),
        asks \in SeqsUpTo(SnapAsks, MaxDepth),
        inserts \in {<< >>, <<Insert("BUY", 4, 1)>>}}
    \cup {Message(<< >>, << >>, inserts) :
             inserts \in SeqsUpTo(BookEntries, MaxDepth)}

\* on_order_book called twice; k counts the calls made.
OnOrderBookCalls ==
    {[fn |-> "on_order_book", messages |-> <<first, second>>, k |-> 0] :
        first \in PriorMessages, second \in NextMessages}

BookConfigs ==
    {c \in ScanConfigs :
        /\ c.taker_fee_pct = 0
        /\ c.maker_fee_pct = 0
        /\ c.min_profit = 0
        /\ c.min_profit_usd \in {0, 1}}

----------------------------------------------------------------------------
(* market_utils.check_inversion *)

\* order_book.get(key, []): the list under the key, [] when the key is absent.
Get(entry) == IF entry = None THEN << >> ELSE Val(entry)

\* The comparison dropped: the difference of the first prices, whatever its
\* sign.
MutCheckInversion(order_book) ==
    LET bids == Get(order_book.bids)
        asks == Get(order_book.asks)
    IN  IF bids = << >> \/ asks = << >>
        THEN [raised |-> FALSE, value |-> 0]
        ELSE IF ~Parses(bids[1].price) \/ ~Parses(asks[1].price)
        THEN [raised |-> TRUE, value |-> 0]
        ELSE [raised |-> FALSE,
              value |-> Decimal(bids[1].price) - Decimal(asks[1].price)]

\* check_inversion(order_book): what it returns, or that Decimal() raised on
\* a first price that is no number.
CheckInversion(order_book) ==
    LET bids == Get(order_book.bids)
        asks == Get(order_book.asks)
    IN  IF bids = << >> \/ asks = << >>
        THEN [raised |-> FALSE, value |-> 0]
        ELSE IF ~Parses(bids[1].price) \/ ~Parses(asks[1].price)
        THEN [raised |-> TRUE, value |-> 0]
        ELSE IF Decimal(bids[1].price) <= Decimal(asks[1].price)
        THEN [raised |-> FALSE, value |-> 0]
        ELSE [raised |-> FALSE,
              value |-> Decimal(bids[1].price) - Decimal(asks[1].price)]

\* The lists an order book passed to check_inversion holds under one key:
\* the key absent, an empty list, one level, two levels out of order, and a
\* first level whose price is no number.
InversionLists ==
    {None, Some(<< >>), Some(<<BadLevel>>), Some(<<Level(1, 1), Level(3, 1)>>)}
    \cup {Some(<<Level(p, 1)>>) : p \in 0..3}

CheckInversionCalls ==
    {[fn |-> "check_inversion", done |-> FALSE,
      order_book |-> [bids |-> bids, asks |-> asks]] :
        bids \in InversionLists, asks \in InversionLists}

\* A configuration load_config accepts: both floors negative, leverage 2.
LossConfig == Config(None, 2, 1, 2, -1, -1, 0, 0)

\* on_order_book called with one message on a bot whose handle_order and
\* place_orders are its own: a book that is not crossed, a crossed book, and
\* two crossing inserts.
PlacingCalls ==
    {[fn |-> "on_order_book to place_orders", message |-> message] :
        message \in { Message(<<Level(2, 1)>>, <<Level(3, 1)>>, << >>),
                      Message(<<Level(3, 2)>>, <<Level(2, 2)>>, << >>),
                      Message(<< >>, << >>,
                              <<Insert("SELL", 3, 1), Insert("BUY", 2, 1)>>) }}

\* A constructed bot whose fields a test has set, and the call it makes.
InitCalls ==
    /\ Constructed
    /\ refresher = "sleep"
    /\ \/ /\ cfg \in ScanConfigs
          /\ has_open_position \in BOOLEAN
          /\ open_batches = NoBatches
          /\ next_batch = 1
          /\ call \in FullBookCalls \cup InversionCalls
       \/ /\ cfg \in EngineConfigs
          /\ has_open_position = FALSE
          /\ call \in OrderUpdateCalls
          /\ open_batches = call.batches
          /\ next_batch = MaxBatches + 1
       \/ /\ cfg \in EngineConfigs
          /\ has_open_position = FALSE
          /\ open_batches = NoBatches
          /\ next_batch = 1
          /\ call \in RefreshPositionsCalls
       \/ /\ cfg \in EngineConfigs
          /\ has_open_position \in BOOLEAN
          /\ \E ids \in {{}, {1}} :
                /\ open_batches = Registered(ids)
                /\ next_batch = Cardinality(ids) + 1
          /\ call \in HandleOrderCalls
       \/ /\ cfg \in BookConfigs
          /\ has_open_position \in BOOLEAN
          /\ open_batches = NoBatches
          /\ next_batch = 1
          /\ call \in OnOrderBookCalls
       \/ /\ cfg \in BookConfigs
          /\ has_open_position = FALSE
          /\ open_batches = NoBatches
          /\ next_batch = 1
          /\ call \in CheckInversionCalls
       \/ /\ cfg \in EngineConfigs \cup {LossConfig}
          /\ has_open_position = FALSE
          /\ open_batches = NoBatches
          /\ next_batch = 1
          /\ call \in PlacingCalls

CallUnchanged ==
    UNCHANGED <<cfg, best_bid, best_bid_qty, best_ask, best_ask_qty,
                available_balance_usd, open_batches, has_open_position,
                last_position_pnl, open_position_price, book, orders_task,
                account_task, refresher, next_batch, failed, exception>>

\* scan_full_book(bids, asks) with handle_order captured.
CallScanFullBook ==
    /\ call.fn = "scan_full_book"
    /\ ~call.done
    /\ captured' = ScanFullBook(call.bids, call.asks, cfg, has_open_position)
    /\ call' = [call EXCEPT !.done = TRUE]
    /\ CallUnchanged

\* scan_inversions(inserts) with handle_order captured.
CallScanInversions ==
    /\ call.fn = "scan_inversions"
    /\ ~call.done
    /\ captured' = ScanInversions(call.inserts, cfg)
    /\ call' = [call EXCEPT !.done = TRUE]
    /\ CallUnchanged

\* on_order_update(message) with the event of the call.
CallOnOrderUpdate ==
    /\ call.fn = "on_order_update"
    /\ OnOrderUpdate(call.client_id, call.status)

\* handle_order(price_buy, price_sell, size, direction) up to its await of
\* refresh_balance; it returns to its caller, no scan and no insert loop
\* follow.
CallHandleOrder ==
    /\ call.fn = "handle_order"
    /\ ~call.done
    /\ book' = [book EXCEPT !["b1"] =
                    InHandleOrder(NoMessage, "inv", call.order)]
    /\ call' = [call EXCEPT !.done = TRUE]
    /\ exception' = "none"
    /\ UNCHANGED <<cfg, best_bid, best_bid_qty, best_ask, best_ask_qty,
                   available_balance_usd, open_batches, has_open_position,
                   last_position_pnl, open_position_price, orders_task,
                   account_task, refresher, next_batch, failed, captured>>

\* refresh_positions() with the next answer of fetch_positions.
CallRefreshPositions ==
    /\ call.fn = "refresh_positions"
    /\ call.k < Len(call.answers)
    /\ SetPositions(call.answers[call.k + 1])
    /\ call' = [call EXCEPT !.k = @ + 1]
    /\ exception' = "none"
    /\ UNCHANGED <<cfg, best_bid, best_bid_qty, best_ask, best_ask_qty,
                   available_balance_usd, open_batches, book, orders_task,
                   account_task, refresher, next_batch, failed, captured>>

\* on_order_book(channel, message) with the next message, handle_order
\* replaced by the stub.
CallOnOrderBook ==
    /\ call.fn = "on_order_book"
    /\ call.k < Len(call.messages)
    /\ LET r == OnOrderBookStubbed(CurrentView, call.messages[call.k + 1],
                                   cfg, has_open_position)
       IN  /\ SetView(r.view)
           /\ captured' = r.made
           /\ exception' = IF r.raised THEN "on_order_book" ELSE "none"
    /\ call' = [call EXCEPT !.k = @ + 1]
    /\ UNCHANGED <<cfg, available_balance_usd, open_batches,
                   has_open_position, last_position_pnl, open_position_price,
                   book, orders_task, account_task, refresher, next_batch,
                   failed>>

\* check_inversion(order_book), its result kept.
CallCheckInversion ==
    /\ call.fn = "check_inversion"
    /\ ~call.done
    /\ captured' = <<CheckInversion(call.order_book)>>
    /\ call' = [call EXCEPT !.done = TRUE]
    /\ CallUnchanged

\* on_order_book(channel, message) up to its first await; handle_order and
\* place_orders go on from there.
CallOnOrderBookPlacing ==
    /\ call.fn = "on_order_book to place_orders"
    /\ OnOrderBook("b1", call.message)

NextCalls ==
    \/ CallOnOrderBook
    \/ CallOnOrderBookPlacing
    \/ CallCheckInversion
    \/ CallScanFullBook
    \/ CallScanInversions
    \/ CallOnOrderUpdate
    \/ \E data \in PositionAnswers : OrderUpdatePositions(data)
    \/ CallHandleOrder
    \/ \E summary \in AccountSummaries : HandleOrder("b1", summary)
    \/ \E ok \in BOOLEAN : PlaceOrders("b1", ok)
    \/ CallRefreshPositions

SpecCalls == InitCalls /\ [][NextCalls]_vars

----------------------------------------------------------------------------
(* The running bot, with the terminal order events it was sent kept *)

\* The bot under run(); terminal holds the batches of which a FILLED or
\* CANCELLED event of a leg was delivered after their request was dispatched.
Watching(terminal) == [fn |-> "run", terminal |-> terminal]

\* The batch a client id names, if its request has been dispatched: uuid4
\* has produced it (lines 356 and 398-400 run without an await in between).
DispatchedBatch(client_id) ==
    IF client_id # None /\ Val(client_id)[1] \in 1..(next_batch - 1)
    THEN {Val(client_id)[1]} ELSE {}

InitTerminal ==
    /\ cfg \in EngineConfigs
    /\ Constructed
    /\ open_batches = NoBatches
    /\ has_open_position = FALSE
    /\ refresher = "run_balance"
    /\ next_batch = 1
    /\ call = Watching({})

\* An order-status event arrives: on_order_update up to refresh_positions
\* (lines 173-180), the event kept when it is terminal.
OrderEvent(client_id, status) ==
    /\ Deliverable
    /\ orders_task = "idle"
    /\ open_batches' = Reconcile(open_batches, client_id, status)
    /\ orders_task' = "fetch_positions"
    /\ exception' = "none"
    /\ call' = IF status \in {"FILLED", "CANCELLED"}
               THEN Watching(call.terminal \cup DispatchedBatch(client_id))
               ELSE call
    /\ UNCHANGED <<cfg, best_bid, best_bid_qty, best_ask, best_ask_qty,
                   available_balance_usd, has_open_position,
                   last_position_pnl, open_position_price, book,
                   account_task, refresher, next_batch, failed, captured>>

\* The awaited calls return: each suspended coroutine is resumed.
BookResumes ==
    \/ \E t \in BookTasks, summary \in AccountSummaries :
           HandleOrder(t, summary)
    \/ \E t \in BookTasks, ok \in BOOLEAN : PlaceOrders(t, ok)

OrdersResumes == \E data \in PositionAnswers : OrderUpdatePositions(data)

AccountResumes ==
    \/ \E summary \in AccountSummaries : AccountUpdateBalance(summary)
    \/ \E data \in PositionAnswers : AccountUpdatePositions(data)

RefresherResumes ==
    \/ \E summary \in AccountSummaries : RefresherBalance(summary)
    \/ \E data \in PositionAnswers : RefresherPositions(data)
    \/ RefresherTick

NextTerminal ==
    \/ \E t \in BookTasks, msg \in BookMessages : OnOrderBook(t, msg)
    \/ \E client_id \in ClientIds, status \in Statuses :
           OrderEvent(client_id, status)
    \/ OnAccountUpdate
    \/ BookResumes
    \/ OrdersResumes
    \/ AccountResumes
    \/ RefresherResumes

\* The event loop resumes a coroutine whose awaited call has returned; what
\* the exchange sends, and when, is not the bot's to decide.
SpecTerminal ==
    /\ InitTerminal
    /\ [][NextTerminal]_vars
    /\ WF_vars(BookResumes)
    /\ WF_vars(OrdersResumes)
    /\ WF_vars(AccountResumes)
    /\ WF_vars(RefresherResumes)

----------------------------------------------------------------------------
(* Properties *)

\* The step in which book coroutine t resumes in handle_order after
\* refresh_balance (every such step changes the coroutine's record).
GateStep(t) == book[t].pc = "refresh_balance" /\ book'[t] # book[t]

\* After the step, t has dispatched a submit_orders_batch request.
Dispatches(t) == book'[t].pc = "submit_orders_batch"

InFlight == Cardinality(DOMAIN open_batches)

\* The entry notional of the order t holds, at the size handle_order clips
\* it to, and the margin limit of a balance, both times leverage * PctDen.
EntryNotional(t) ==
    LET o == book[t].order
        size == IF cfg.order_size # None /\ cfg.order_size[1] < o.size
                THEN cfg.order_size[1] ELSE o.size
        entry_price == IF o.direction = "long" THEN o.price_buy
                       ELSE o.price_sell
    IN  entry_price * size * PctDen
MarginLimit(balance) == balance * cfg.balance_reserved_pct * cfg.leverage

\* C1 (position gate): a step taken while has_open_position is true
\* dispatches no request and produces no batch id; the gates of handle_order
\* evaluated in such a step leave open_batches unchanged and do not call
\* place_orders, whatever the candidate.
C1_PositionGate ==
    [][has_open_position =>
          /\ next_batch' = next_batch
          /\ \A t \in BookTasks :
                /\ book[t].pc # "submit_orders_batch" => ~Dispatches(t)
                /\ GateStep(t) => open_batches' = open_batches]_vars

\* C1 witness: handle_order is about to evaluate its gates with a position
\* open, for a candidate the margin gate and the batch cap would let through.
C1_Witness ==
    /\ has_open_position
    /\ \E t \in BookTasks :
          /\ book[t].pc = "refresh_balance"
          /\ EntryNotional(t) <= MarginLimit(available_balance_usd)
          /\ InFlight < cfg.max_open_orders

C3_BatchCap ==
    [][\A t \in BookTasks :
          (GateStep(t) /\ InFlight >= cfg.max_open_orders)
          => (/\ ~Dispatches(t)
              /\ next_batch' = next_batch
              /\ open_batches' = open_batches)]_vars

\* C3 witness: handle_order is about to evaluate its gates at the cap, with
\* no open position and a candidate the margin gate lets through.
C3_Witness ==
    /\ ~has_open_position
    /\ InFlight >= cfg.max_open_orders
    /\ \E t \in BookTasks :
          /\ book[t].pc = "refresh_balance"
          /\ EntryNotional(t) <= MarginLimit(available_balance_usd)

\* C4 (the claim as stated): open_batches never holds more than
\* max_open_orders batches.
C4_NeverOverCap == InFlight <= cfg.max_open_orders

\* C5 (the claim as stated): a batch whose request has been dispatched and
\* has not completed is already recorded in open_batches.
C5_RecordedBeforeDispatch ==
    \A t \in BookTasks :
        book[t].pc = "submit_orders_batch"
            => book[t].batch_id \in DOMAIN open_batches

\* C6 (submission failure): a batch whose submit_orders_batch raised is
\* never in open_batches; the step in which it raises leaves open_batches as
\* it was, raises nothing out of place_orders and dispatches no request (no
\* retry).
C6_SubmissionFailure ==
    [][/\ failed' \cap DOMAIN open_batches' = {}
       /\ failed' # failed =>
             /\ open_batches' = open_batches
             /\ exception' = "none"
             /\ next_batch' = next_batch
             /\ \A t \in BookTasks :
                   book'[t].pc = "submit_orders_batch" => book'[t] = book[t]
      ]_vars

\* C6 witness: with a cap of one batch, a batch submitted after a failed one
\* is in flight.
C6_Witness ==
    /\ cfg.max_open_orders = 1
    /\ \E f \in failed : \E b \in DOMAIN open_batches : b > f

\* C7 (reconciliation removal): after on_order_update handled an event,
\* open_batches is what it was without the batch one of whose legs has the
\* event's client id, if the status is FILLED or CANCELLED; every other batch
\* is kept.
C7_ReconciliationRemoval ==
    (call.fn = "on_order_update" /\ orders_task = "fetch_positions")
    => LET hit == {b \in DOMAIN call.batches :
                      /\ call.status \in {"FILLED", "CANCELLED"}
                      /\ \/ call.client_id = Some(<<b, "buy">>)
                         \/ call.client_id = Some(<<b, "sell">>)}
       IN  /\ Cardinality(hit) <= 1
           /\ DOMAIN open_batches = DOMAIN call.batches \ hit
           /\ \A b \in DOMAIN open_batches :
                 open_batches[b] = call.batches[b]

\* C7 witness: of two batches in flight, the one whose sell leg was FILLED is
\* gone and the other is kept.
C7_Witness ==
    /\ call.fn = "on_order_update"
    /\ orders_task = "fetch_positions"
    /\ call.status = "FILLED"
    /\ call.client_id = Some(<<1, "sell">>)
    /\ DOMAIN call.batches = {1, 2}
    /\ DOMAIN open_batches = {2}

\* The spread condition and profit floor of a (bid, ask) pair, per direction.
QualifiesLong(bid, ask) ==
    /\ Val(bid.price) >= Val(ask.price) + cfg.min_profit
    /\ FullLongProfit(Val(bid.price), Val(ask.price),
                      Min(Val(bid.size), Val(ask.size)), cfg)
           >= FeeDen * cfg.min_profit_usd
QualifiesShort(bid, ask) ==
    /\ Val(ask.price) >= Val(bid.price) + cfg.min_profit
    /\ FullShortProfit(Val(bid.price), Val(ask.price),
                       Min(Val(bid.size), Val(ask.size)), cfg)
           >= FeeDen * cfg.min_profit_usd
Qualifies(bid, ask) ==
    /\ LevelOK(bid)
    /\ LevelOK(ask)
    /\ QualifiesLong(bid, ask) \/ QualifiesShort(bid, ask)

\* The qualifying pairs of the call, as <<bid index, ask index>>.
QualifyingPairs ==
    {p \in (1..Len(call.bids)) \X (1..Len(call.asks)) :
        Qualifies(call.bids[p[1]], call.asks[p[2]])}

\* p comes no later than q in bid-major, ask-minor order.
NoLater(p, q) == p[1] < q[1] \/ (p[1] = q[1] /\ p[2] <= q[2])

\* C8 (first-fit full-depth scan): scan_full_book calls handle_order at most
\* once; with no open position it calls it for the first qualifying pair in
\* bid-major, ask-minor order, long (buy the ask, sell the bid) when the long
\* conditions hold and short otherwise, and makes no call when no pair
\* qualifies.
C8_FirstFit ==
    (call.fn = "scan_full_book" /\ call.done)
    => /\ Len(captured) <= 1
       /\ IF has_open_position \/ QualifyingPairs = {}
          THEN captured = << >>
          ELSE \E p \in QualifyingPairs :
                  /\ \A q \in QualifyingPairs : NoLater(p, q)
                  /\ LET bid == call.bids[p[1]]
                         ask == call.asks[p[2]]
                         size == Min(Val(bid.size), Val(ask.size))
                     IN  captured =
                            << IF QualifiesLong(bid, ask)
                               THEN Candidate(Val(ask.price), Val(bid.price),
                                              size, "long")
                               ELSE Candidate(Val(bid.price), Val(ask.price),
                                              size, "short") >>

\* C8 witness: bids 4 and 3, asks 2 and 1, min_profit 1, no fees: the first
\* pair (4, 2) is taken, not the later pair (4, 1) of larger spread.
C8_Witness ==
    /\ call.fn = "scan_full_book"
    /\ call.done
    /\ call.bids = <<Level(4, 1), Level(3, 2)>>
    /\ call.asks = <<Level(2, 1), Level(1, 1)>>
    /\ cfg.min_profit = 1
    /\ cfg.min_profit_usd = 1
    /\ cfg.taker_fee_pct = 0
    /\ captured = <<Candidate(2, 4, 1, "long")>>

\* The net profit, times FeeDen, of the variant a captured call selected.
SelectedProfit(o) ==
    IF call.fn = "scan_full_book"
    THEN IF o.direction = "long"
         THEN FullLongProfit(o.price_sell, o.price_buy, o.size, cfg)
         ELSE FullShortProfit(o.price_buy, o.price_sell, o.size, cfg)
    ELSE IF o.direction = "long"
         THEN InvLongProfit(o.price_buy, o.price_sell, o.size, cfg)
         ELSE InvShortProfit(o.price_buy, o.price_sell, o.size, cfg)

\* The buy-leg and sell-leg entries of the first two inserts, when both
\* parse and one is a BUY and the other a SELL.
HasLegs ==
    /\ Len(call.inserts) >= 2
    /\ EntryOK(call.inserts[1])
    /\ EntryOK(call.inserts[2])
    /\ {call.inserts[1].side, call.inserts[2].side} = {"BUY", "SELL"}
BuyLeg ==
    IF call.inserts[1].side = "BUY" THEN call.inserts[1] ELSE call.inserts[2]
SellLeg ==
    IF call.inserts[1].side = "SELL" THEN call.inserts[1] ELSE call.inserts[2]

\* C9 (profit floor inclusive): no call of handle_order is made for a
\* variant whose net profit is below min_profit_usd; a pair that meets its
\* spread condition with a net profit equal to min_profit_usd, and a crossed
\* pair of inserts one of whose variants has a net profit equal to
\* min_profit_usd, make the scan call handle_order.
C9_ProfitFloorInclusive ==
    /\ (call.fn \in {"scan_full_book", "scan_inversions"} /\ call.done)
       => \A k \in 1..Len(captured) :
             SelectedProfit(captured[k]) >= FeeDen * cfg.min_profit_usd
    /\ (call.fn = "scan_full_book" /\ call.done /\ ~has_open_position)
       => \A i \in 1..Len(call.bids), j \in 1..Len(call.asks) :
             LET bid == call.bids[i]
                 ask == call.asks[j]
                 size == Min(Val(bid.size), Val(ask.size))
             IN  (/\ LevelOK(bid)
                  /\ LevelOK(ask)
                  /\ \/ /\ Val(bid.price) >= Val(ask.price) + cfg.min_profit
                        /\ FullLongProfit(Val(bid.price), Val(ask.price),
                                          size, cfg)
                               = FeeDen * cfg.min_profit_usd
                     \/ /\ Val(ask.price) >= Val(bid.price) + cfg.min_profit
                        /\ FullShortProfit(Val(bid.price), Val(ask.price),
                                           size, cfg)
                               = FeeDen * cfg.min_profit_usd)
                 => captured # << >>
    /\ (call.fn = "scan_inversions" /\ call.done /\ HasLegs)
       => LET price_buy == Val(BuyLeg.price)
              price_sell == Val(SellLeg.price)
              size == Min(Val(BuyLeg.size), Val(SellLeg.size))
          IN  (/\ price_sell > price_buy
               /\ \/ InvLongProfit(price_buy, price_sell, size, cfg)
                         = FeeDen * cfg.min_profit_usd
                  \/ InvShortProfit(price_buy, price_sell, size, cfg)
                         = FeeDen * cfg.min_profit_usd)
              => captured # << >>

\* C9 witness: scan_inversions called handle_order for a variant whose net
\* profit equals a floor of 2.
C9_Witness ==
    /\ call.fn = "scan_inversions"
    /\ call.done
    /\ cfg.min_profit_usd = 2
    /\ captured # << >>
    /\ SelectedProfit(captured[1]) = FeeDen * cfg.min_profit_usd

\* C10 (no-op rejection): scan_inversions makes no call when the SELL
\* entry's price is at most the BUY entry's price, whatever the sizes, fees
\* and floor; every call it makes has price_sell above price_buy.
C10_NoOpRejection ==
    (call.fn = "scan_inversions" /\ call.done)
    => /\ (HasLegs /\ Val(SellLeg.price) <= Val(BuyLeg.price))
              => captured = << >>
       /\ \A k \in 1..Len(captured) :
              captured[k].price_sell > captured[k].price_buy

\* C10 witness: a SELL and a BUY insert at the same price, a maker rebate
\* and a floor of 0, and no call made.
C10_Witness ==
    /\ call.fn = "scan_inversions"
    /\ call.done
    /\ call.inserts = <<Insert("SELL", 2, 2), Insert("BUY", 2, 1)>>
    /\ cfg.maker_fee_pct < 0
    /\ cfg.min_profit_usd = 0
    /\ captured = << >>

\* The least qualifying pairs of the call in bid-major, ask-minor order (one
\* pair, or none).
FirstPairs ==
    {p \in QualifyingPairs : \A q \in QualifyingPairs : NoLater(p, q)}

\* C11 (size is the minimum of the legs): the size scan_inversions hands to
\* handle_order is the smaller of the sizes of the first two inserts, the size
\* scan_full_book hands over is the smaller of the sizes of the matched bid
\* and ask, and the size of the batch handle_order dispatches is the smaller
\* of the candidate size and order_size when order_size is configured, the
\* candidate size otherwise.
C11_SizeIsMinOfLegs ==
    /\ (call.fn = "scan_inversions" /\ call.done)
       => \A k \in 1..Len(captured) :
             LET q1 == Val(call.inserts[1].size)
                 q2 == Val(call.inserts[2].size)
             IN  /\ captured[k].size <= q1
                 /\ captured[k].size <= q2
                 /\ captured[k].size \in {q1, q2}
    /\ (call.fn = "scan_full_book" /\ call.done)
       => \A k \in 1..Len(captured) :
             \E p \in FirstPairs :
                LET bid_size == Val(call.bids[p[1]].size)
                    ask_size == Val(call.asks[p[2]].size)
                IN  /\ captured[k].size <= bid_size
                    /\ captured[k].size <= ask_size
                    /\ captured[k].size \in {bid_size, ask_size}
    /\ (call.fn = "handle_order" /\ book["b1"].pc = "submit_orders_batch")
       => LET sent == book["b1"].order
          IN  /\ sent.price_buy = call.order.price_buy
              /\ sent.price_sell = call.order.price_sell
              /\ sent.direction = call.order.direction
              /\ sent.size =
                    IF cfg.order_size = None THEN call.order.size
                    ELSE IF call.order.size <= cfg.order_size[1]
                    THEN call.order.size
                    ELSE cfg.order_size[1]

\* C11 witness: handle_order, called with a size of 3 under order_size 1,
\* dispatched a batch of size 1.
C11_Witness ==
    /\ call.fn = "handle_order"
    /\ call.order.size = 3
    /\ cfg.order_size = Some(1)
    /\ book["b1"].pc = "submit_orders_batch"
    /\ book["b1"].order.size = 1

\* C12 (the claim as stated): neither scan calls handle_order with a size
\* that is zero or negative.
C12_NoCandidateOfNoSize ==
    (call.fn \in {"scan_inversions", "scan_full_book"} /\ call.done)
    => \A k \in 1..Len(captured) : captured[k].size > 0

\* C13 (dual fee-variant selection): for a BUY and a SELL insert with the
\* sell price above the buy price, scan_inversions computes the long net
\* profit with the taker fee on the buy price and the maker fee on the sell
\* price, and the short net profit with the fees exchanged; it calls
\* handle_order once for the variant of higher net profit, long at equality,
\* when that profit is at least min_profit_usd, and makes no call otherwise.
C13_DualVariantSelection ==
    (/\ call.fn = "scan_inversions"
     /\ call.done
     /\ HasLegs
     /\ Val(SellLeg.price) > Val(BuyLeg.price))
    => LET buy == Val(BuyLeg.price)
           sell == Val(SellLeg.price)
           size == Min(Val(BuyLeg.size), Val(SellLeg.size))
           long == FeeDen * (sell - buy) * size
                       - buy * size * cfg.taker_fee_pct
                       - sell * size * cfg.maker_fee_pct
           short == FeeDen * (sell - buy) * size
                       - sell * size * cfg.taker_fee_pct
                       - buy * size * cfg.maker_fee_pct
           best == IF long >= short THEN long ELSE short
       IN  IF best >= FeeDen * cfg.min_profit_usd
           THEN captured =
                  <<Candidate(buy, sell, size,
                              IF long >= short THEN "long" ELSE "short")>>
           ELSE captured = << >>

\* C13 witness: the short variant has the higher net profit and is the one
\* handed to handle_order.
C13_Witness ==
    /\ call.fn = "scan_inversions"
    /\ call.done
    /\ captured # << >>
    /\ captured[1].direction = "short"
    /\ cfg.taker_fee_pct < cfg.maker_fee_pct

\* The inserts of the call with the first two exchanged.
Swapped ==
    [k \in 1..Len(call.inserts) |->
        IF k = 1 THEN call.inserts[2]
        ELSE IF k = 2 THEN call.inserts[1]
        ELSE call.inserts[k]]

\* C14 (independence of arrival order): scan_inversions makes the same call,
\* or the same absence of a call, as it makes on the inserts with the first
\* two exchanged; a call it makes has the BUY entry's price as price_buy and
\* the SELL entry's price as price_sell; two inserts of the same side yield
\* no call.
C14_ArrivalOrderIndependent ==
    (call.fn = "scan_inversions" /\ call.done /\ Len(call.inserts) >= 2)
    => /\ captured = ScanInversions(Swapped, cfg)
       /\ captured # << >>
             => /\ HasLegs
                /\ captured[1].price_buy = Val(BuyLeg.price)
                /\ captured[1].price_sell = Val(SellLeg.price)
       /\ call.inserts[1].side = call.inserts[2].side => captured = << >>

\* C14 witness: the SELL insert comes first and the candidate buys at the BUY
\* entry's price and sells at the SELL entry's price.
C14_Witness ==
    /\ call.fn = "scan_inversions"
    /\ call.done
    /\ call.inserts = <<Insert("SELL", 3, 1), Insert("BUY", 2, 2)>>
    /\ captured = <<Candidate(2, 3, 1, "long")>>

\* C15 (full-depth direction classification): a long call of scan_full_book
\* buys at the ask price and sells at the bid price of a pair with
\* bid_price >= ask_price + min_profit whose long net profit is at least
\* min_profit_usd; a short call buys at the bid price and sells at the ask
\* price of a pair with ask_price >= bid_price + min_profit whose short net
\* profit is at least min_profit_usd, and that pair does not meet the long
\* conditions (long is tried first).
C15_DirectionClassification ==
    (call.fn = "scan_full_book" /\ call.done)
    => \A k \in 1..Len(captured) :
          \E i \in 1..Len(call.bids), j \in 1..Len(call.asks) :
             LET bid == call.bids[i]
                 ask == call.asks[j]
                 o == captured[k]
             IN  /\ LevelOK(bid)
                 /\ LevelOK(ask)
                 /\ LET bid_price == Val(bid.price)
                        ask_price == Val(ask.price)
                        size == Min(Val(bid.size), Val(ask.size))
                        long ==
                            /\ bid_price >= ask_price + cfg.min_profit
                            /\ FeeDen * (bid_price - ask_price) * size
                                   - ask_price * size * cfg.taker_fee_pct
                                   - bid_price * size * cfg.maker_fee_pct
                                 >= FeeDen * cfg.min_profit_usd
                        short ==
                            /\ ask_price >= bid_price + cfg.min_profit
                            /\ FeeDen * (ask_price - bid_price) * size
                                   - bid_price * size * cfg.taker_fee_pct
                                   - ask_price * size * cfg.maker_fee_pct
                                 >= FeeDen * cfg.min_profit_usd
                    IN  \/ /\ o = Candidate(ask_price, bid_price, size, "long")
                           /\ long
                        \/ /\ o = Candidate(bid_price, ask_price, size,
                                            "short")
                           /\ short
                           /\ ~long

\* C15 witness: a bid and an ask at the same price with min_profit 0 meet both
\* spread conditions, a maker rebate makes both variants profitable, and the
\* call is long.
C15_Witness ==
    /\ call.fn = "scan_full_book"
    /\ call.done
    /\ call.bids = <<Level(1, 1)>>
    /\ call.asks = <<Level(1, 1)>>
    /\ cfg.min_profit = 0
    /\ cfg.maker_fee_pct < 0
    /\ captured = <<Candidate(1, 1, 1, "long")>>

\* C16 (scan skipped while a position is open): scan_full_book makes no call
\* when has_open_position is true, whatever the bids and asks.
C16_SkippedWhilePositionOpen ==
    (call.fn = "scan_full_book" /\ call.done /\ has_open_position)
    => captured = << >>

\* C16 witness: a finished scan with a position open and a qualifying pair
\* in the book.
C16_Witness ==
    /\ call.fn = "scan_full_book"
    /\ call.done
    /\ has_open_position
    /\ QualifyingPairs # {}
    /\ captured = << >>

\* C17 (the claim as stated): no handle_order, on_account_update or
\* balance_refresher coroutine is ended by an exception of refresh_balance.
C17_BalanceFailureContained ==
    exception \notin {"handle_order", "on_account_update", "balance_refresher"}

\* C18 (the claim as stated): the balance_refresher task never ends.
C18_RefresherNeverStops == refresher # "dead"

\* The answer of fetch_positions in the latest refresh_positions call.
Answer == call.answers[call.k]

\* C19 (open-position flag): after a refresh_positions call in which
\* fetch_positions returned, has_open_position is true exactly when the
\* results hold a position of the configured market with status OPEN.
C19_OpenPositionFlag ==
    (call.fn = "refresh_positions" /\ call.k >= 1 /\ ~Answer.raised)
    => (has_open_position
          <=> \E k \in 1..Len(Answer.results) :
                 /\ Answer.results[k].market = TheMarket
                 /\ Answer.results[k].status = "OPEN")

\* C19 witness: a first call found an OPEN position of the market; the second
\* call got only a position of another market and a CLOSED one, and the flag
\* is cleared.
C19_Witness ==
    /\ call.fn = "refresh_positions"
    /\ call.k = 2
    /\ ~call.answers[1].raised
    /\ call.answers[1].results = <<Position(TheMarket, "OPEN", Some(2), None, 0)>>
    /\ ~Answer.raised
    /\ Answer.results = <<Position(OtherMarket, "OPEN", Some(5), None, 0),
                          Position(TheMarket, "CLOSED", None, Some(1), 3)>>
    /\ ~has_open_position

\* C20 (position query failure): a refresh_positions call in which
\* fetch_positions raises leaves has_open_position, open_position_price and
\* last_position_pnl as they were and raises nothing.
C20_PositionFailureKeepsState ==
    [][(/\ call.fn = "refresh_positions"
        /\ call'.k = call.k + 1
        /\ call.answers[call'.k].raised)
       => /\ UNCHANGED <<has_open_position, open_position_price,
                         last_position_pnl>>
          /\ exception' = "none"]_vars

\* C20 witness: after a call that found an OPEN position with an entry price,
\* a second call failed and the flag and the price are still set.
C20_Witness ==
    /\ call.fn = "refresh_positions"
    /\ call.k = 2
    /\ Answer.raised
    /\ has_open_position
    /\ open_position_price = Some(2)

\* C21 (entry price only with an open position): in every reachable state
\* open_position_price is present only when has_open_position is true.
C21_PriceOnlyWhenOpen == open_position_price # None => has_open_position

\* C21 witness: an entry price is stored and a handler is about to resume
\* from fetch_positions, which may have failed or may list no position.
C21_Witness ==
    /\ open_position_price # None
    /\ \/ orders_task = "fetch_positions"
       \/ account_task = "fetch_positions"
       \/ refresher = "positions"

\* The message the on_order_book call of this step handles, and whether it
\* carries a snapshot (bids and asks both non-empty).
Handled == call.messages[call.k + 1]
BookStep == call.fn = "on_order_book" /\ call'.k = call.k + 1
HasSnapshot(msg) == msg.bids # << >> /\ msg.asks # << >>

\* The view the insert loop of this step starts from: the top of the snapshot
\* when the message carries one, the view before the call otherwise.
LoopStart ==
    IF HasSnapshot(Handled)
    THEN View(Handled.bids[1].price, Handled.bids[1].size,
              Handled.asks[1].price, Handled.asks[1].size)
    ELSE CurrentView

\* The positions of the well-formed entries of a side in the handled inserts.
EntriesOf(side) ==
    {k \in 1..Len(Handled.inserts) :
        LET e == Handled.inserts[k]
        IN  e.price # None /\ e.size # None /\ e.side = side}

\* C22 (insert rule): the insert loop replaces best_bid and best_bid_qty by a
\* BUY entry's price and size exactly when best_bid is absent or the price is
\* strictly greater, and best_ask and best_ask_qty by a SELL entry's exactly
\* when best_ask is absent or the price is strictly lower.  Over a whole
\* list: the bid ends at the highest BUY price if one beats the start, with
\* the size of the first entry at that price, and is untouched otherwise;
\* the ask symmetrically; without a snapshot best_bid does not decrease and
\* best_ask does not increase.
C22_InsertRule ==
    [][(BookStep /\ exception' = "none")
       => LET buys == EntriesOf("BUY")
              sells == EntriesOf("SELL")
              up == {k \in buys :
                        \/ LoopStart.best_bid = None
                        \/ Val(Handled.inserts[k].price)
                               > Val(LoopStart.best_bid)}
              down == {k \in sells :
                          \/ LoopStart.best_ask = None
                          \/ Val(Handled.inserts[k].price)
                                 < Val(LoopStart.best_ask)}
          IN  /\ IF up = {}
                 THEN /\ best_bid' = LoopStart.best_bid
                      /\ best_bid_qty' = LoopStart.best_bid_qty
                 ELSE \E k \in up :
                         /\ \A m \in up :
                               \/ Val(Handled.inserts[m].price)
                                      < Val(Handled.inserts[k].price)
                               \/ /\ Handled.inserts[m].price
                                        = Handled.inserts[k].price
                                  /\ k <= m
                         /\ best_bid' = Handled.inserts[k].price
                         /\ best_bid_qty' = Handled.inserts[k].size
              /\ IF down = {}
                 THEN /\ best_ask' = LoopStart.best_ask
                      /\ best_ask_qty' = LoopStart.best_ask_qty
                 ELSE \E k \in down :
                         /\ \A m \in down :
                               \/ Val(Handled.inserts[m].price)
                                      > Val(Handled.inserts[k].price)
                               \/ /\ Handled.inserts[m].price
                                        = Handled.inserts[k].price
                                  /\ k <= m
                         /\ best_ask' = Handled.inserts[k].price
                         /\ best_ask_qty' = Handled.inserts[k].size
              /\ (~HasSnapshot(Handled) /\ best_bid # None)
                    => (best_bid' # None /\ Val(best_bid') >= Val(best_bid))
              /\ (~HasSnapshot(Handled) /\ best_ask # None)
                    => (best_ask' # None /\ Val(best_ask') <= Val(best_ask))
      ]_vars

\* C22 witness: with best bid 2 of size 1, the inserts BUY 3 of size 2 and
\* BUY 2 of size 1 left best bid 3 of size 2 and the ask as it was.
C22_Witness ==
    /\ call.fn = "on_order_book"
    /\ call.k = 2
    /\ call.messages[1] = Message(<<Level(2, 1)>>, <<Level(3, 1)>>, << >>)
    /\ call.messages[2] =
          Message(<< >>, << >>, <<Insert("BUY", 3, 2), Insert("BUY", 2, 1)>>)
    /\ CurrentView = View(Some(3), Some(2), Some(3), Some(1))

\* The entries of a list that have a side, a price and a size, in order.
RECURSIVE WellFormed(_)
WellFormed(inserts) ==
    IF inserts = << >> THEN << >>
    ELSE LET e == Head(inserts)
         IN  IF e.price # None /\ e.size # None /\ e.side # "missing"
             THEN <<e>> \o WellFormed(Tail(inserts))
             ELSE WellFormed(Tail(inserts))

\* The first level of each side of the snapshot parses.
TopParses(msg) ==
    /\ msg.bids[1].price # None
    /\ msg.bids[1].size # None
    /\ msg.asks[1].price # None
    /\ msg.asks[1].size # None

\* C23 (malformed inserts are skipped): an on_order_book call whose insert
\* list holds an entry with a missing field or a non-numeric price or size,
\* at any position, raises nothing and leaves the view that the insert rule
\* gives for the well-formed entries of the list alone.
C23_MalformedInsertSkipped ==
    [][(/\ BookStep
        /\ WellFormed(Handled.inserts) # Handled.inserts
        /\ HasSnapshot(Handled) => TopParses(Handled))
       => /\ exception' = "none"
          /\ View(best_bid', best_bid_qty', best_ask', best_ask_qty')
                = ApplyInserts(LoopStart, WellFormed(Handled.inserts), 1)
      ]_vars

\* C23 witness: the first insert has no price, the second is BUY 3 of size 2;
\* the call raised nothing and best bid is 3 of size 2.
C23_Witness ==
    /\ call.fn = "on_order_book"
    /\ call.k = 2
    /\ call.messages[2] =
          Message(<< >>, << >>,
                  <<[side |-> "BUY", price |-> None, size |-> Some(1)],
                    Insert("BUY", 3, 2)>>)
    /\ exception = "none"
    /\ best_bid = Some(3)
    /\ best_bid_qty = Some(2)

\* C24 (the claim as stated): no on_order_book call raises, whatever levels
\* of its snapshot do not parse.
C24_MalformedLevelNeverAborts ==
    call.fn = "on_order_book" => exception # "on_order_book"

\* C25 (snapshot handling): an on_order_book call whose message has non-empty
\* bids and asks sets the four fields of the view to the price and size of
\* the first bid and the first ask before scan_full_book runs (the view is
\* already that one when the scan calls handle_order, and it is the view left
\* when the message has no inserts); a call whose bids or asks are empty
\* makes no full-depth call and, the message having no inserts, leaves the
\* four fields unchanged.
C25_SnapshotHandling ==
    [][BookStep
       => LET top == View(Handled.bids[1].price, Handled.bids[1].size,
                          Handled.asks[1].price, Handled.asks[1].size)
              after == View(best_bid', best_bid_qty', best_ask',
                            best_ask_qty')
          IN  /\ (HasSnapshot(Handled) /\ TopParses(Handled))
                 => /\ exception' = "none"
                    /\ \A k \in 1..Len(captured') :
                          captured'[k].scan = "full"
                              => captured'[k].view = top
                    /\ Handled.inserts = << >> => after = top
              /\ ~HasSnapshot(Handled)
                 => /\ \A k \in 1..Len(captured') :
                          captured'[k].scan # "full"
                    /\ Handled.inserts = << >> => after = CurrentView
      ]_vars

\* C25 witness: after a view of bid 2 and ask 3, a snapshot with first bid 2
\* of size 2 and first ask 2 of size 1 made the full-depth scan call
\* handle_order with the view already at those values.
C25_Witness ==
    /\ call.fn = "on_order_book"
    /\ call.k = 2
    /\ call.messages[1] = Message(<<Level(2, 1)>>, <<Level(3, 1)>>, << >>)
    /\ call.messages[2] = Message(<<Level(2, 2)>>, <<Level(2, 1)>>, << >>)
    /\ captured # << >>
    /\ captured[1].scan = "full"
    /\ captured[1].view = View(Some(2), Some(2), Some(2), Some(1))
    /\ CurrentView = View(Some(2), Some(2), Some(2), Some(1))

\* C26 (the claim as stated): the four fields of the market view are all
\* present or all absent, and a present price is not negative.
C26_ViewAllOrNothing ==
    /\ \/ /\ best_bid = None
          /\ best_bid_qty = None
          /\ best_ask = None
          /\ best_ask_qty = None
       \/ /\ best_bid # None
          /\ best_bid_qty # None
          /\ best_ask # None
          /\ best_ask_qty # None
    /\ best_bid # None => Val(best_bid) >= 0
    /\ best_ask # None => Val(best_ask) >= 0

\* C27: check_inversion returns the first bid price minus the first ask
\* price when the first bid price is strictly greater, and zero when it is
\* equal or lower or when either list is empty or missing; the result is
\* never negative.
C27_CheckInversion ==
    (call.fn = "check_inversion" /\ call.done)
    => LET bids == Get(call.order_book.bids)
           asks == Get(call.order_book.asks)
           result == captured[1]
       IN  /\ ~result.raised => result.value >= 0
           /\ (bids = << >> \/ asks = << >>)
              => (~result.raised /\ result.value = 0)
           /\ (bids # << >> /\ asks # << >>
               /\ Parses(bids[1].price) /\ Parses(asks[1].price))
              => /\ ~result.raised
                 /\ result.value =
                       IF Val(bids[1].price) > Val(asks[1].price)
                       THEN Val(bids[1].price) - Val(asks[1].price)
                       ELSE 0

\* C27 witness: a first bid of 3 over a first ask of 1 returned 2.
C27_Witness ==
    /\ call.fn = "check_inversion"
    /\ call.done
    /\ call.order_book = [bids |-> Some(<<Level(3, 1)>>),
                          asks |-> Some(<<Level(1, 1), Level(3, 1)>>)]
    /\ captured = <<[raised |-> FALSE, value |-> 2]>>

\* A direct call of handle_order resumes from refresh_balance and returns or
\* goes on to place_orders.
DecisionStep ==
    /\ call.fn = "handle_order"
    /\ book["b1"].pc = "refresh_balance"
    /\ book'["b1"].pc # "refresh_balance"
    /\ exception' = "none"

\* The size after line 340, from the configuration of the call.
Clipped ==
    IF cfg.order_size = None THEN call.order.size
    ELSE IF call.order.size < Val(cfg.order_size) THEN call.order.size
    ELSE Val(cfg.order_size)

\* margin_needed of a size against the refreshed balance (lines 341-344).
OverMargin(size) ==
    FirstPrice(call.order) * size * PctDen
        > available_balance_usd' * cfg.balance_reserved_pct * cfg.leverage

\* C28: handle_order checks the open position, then clips the size, then
\* checks the margin of the clipped size, then the cap on open batches; what
\* it reports is the first of PositionOpen, InsufficientMargin and
\* TooManyOpenOrders that applies, and a candidate that passes all three goes
\* to place_orders with the clipped size, also when its unclipped notional
\* exceeds the margin.
C28_GateOrder ==
    [][DecisionStep
       => LET full == Cardinality(DOMAIN open_batches) >= cfg.max_open_orders
          IN  /\ has_open_position => captured' = <<"PositionOpen">>
              /\ (~has_open_position /\ OverMargin(Clipped))
                 => captured' = <<"InsufficientMargin">>
              /\ (~has_open_position /\ ~OverMargin(Clipped) /\ full)
                 => captured' = <<"TooManyOpenOrders">>
              /\ (~has_open_position /\ ~OverMargin(Clipped) /\ ~full)
                 => /\ captured' = <<"place">>
                    /\ book'["b1"].pc = "submit_orders_batch"
                    /\ book'["b1"].order.size = Clipped
              /\ captured' # <<"place">> => book'["b1"].pc = "idle"
      ]_vars

\* C28 witness: with order_size 1 and leverage 2, a long candidate of price 2
\* and size 3 on a balance of 2 (notional margin 3 over 2, clipped margin 1)
\* was sent to place_orders with size 1.
C28_Witness ==
    /\ call.fn = "handle_order"
    /\ call.order = Candidate(2, 3, 3, "long")
    /\ cfg.order_size = Some(1)
    /\ cfg.leverage = 2
    /\ available_balance_usd = 2
    /\ captured = <<"place">>
    /\ book["b1"].pc = "submit_orders_batch"
    /\ book["b1"].order.size = 1

\* The list submit_orders_batch was called with by the coroutine t.
Submitted(t) == Orders(book[t].order, book[t].batch_id)

\* C29 (the claim as stated): every batch handed to submit_orders_batch is
\* two limit orders for the configured market, a BUY at price_buy and a SELL
\* at price_sell of one size, with the client ids of one fresh batch id, the
\* entry leg first; the buy limit price does not exceed the sell limit price;
\* and a recorded batch maps its id to these two client ids.
C29_BatchShape ==
    /\ \A t \in BookTasks :
          book[t].pc = "submit_orders_batch"
          => LET orders == Submitted(t)
                 id == book[t].batch_id
                 buy == IF orders[1].order_side = "BUY" THEN 1 ELSE 2
                 sell == 3 - buy
             IN  /\ Len(orders) = 2
                 /\ \A k \in 1..2 :
                       /\ orders[k].market = TheMarket
                       /\ orders[k].order_type = "Limit"
                 /\ orders[buy].order_side = "BUY"
                 /\ orders[sell].order_side = "SELL"
                 /\ orders[buy].limit_price = book[t].order.price_buy
                 /\ orders[sell].limit_price = book[t].order.price_sell
                 /\ orders[1].size = orders[2].size
                 /\ orders[buy].client_id = <<id, "buy">>
                 /\ orders[sell].client_id = <<id, "sell">>
                 /\ id \notin DOMAIN open_batches \cup failed
                 /\ (book[t].order.direction = "long") = (buy = 1)
                 /\ orders[buy].limit_price <= orders[sell].limit_price
    /\ \A b \in DOMAIN open_batches :
          open_batches[b] = [buy |-> <<b, "buy">>, sell |-> <<b, "sell">>]

\* A step of a direct call of on_order_update: to its await of
\* refresh_positions, or from there to its return.
OrderUpdateStep == call.fn = "on_order_update" /\ orders_task' # orders_task

\* The client_id of the event is one of the two ids of a tracked batch.
MatchesLeg ==
    /\ call.client_id # None
    /\ \E b \in DOMAIN open_batches :
          Val(call.client_id) \in {open_batches[b].buy, open_batches[b].sell}

\* C30: an order-status event whose status is not FILLED or CANCELLED, or
\* whose client_id is absent or matches no leg of a tracked batch, leaves
\* open_batches unchanged; and no order-status event changes the market view
\* or available_balance_usd.
C30_OrderUpdateFrame ==
    [][OrderUpdateStep
       => /\ best_bid' = best_bid
          /\ best_bid_qty' = best_bid_qty
          /\ best_ask' = best_ask
          /\ best_ask_qty' = best_ask_qty
          /\ available_balance_usd' = available_balance_usd
          /\ (call.status \notin {"FILLED", "CANCELLED"} \/ ~MatchesLeg)
             => open_batches' = open_batches
      ]_vars

\* C30 witness: a NEW event for the buy leg of batch 1 was handled with
\* batches 1 and 2 tracked, and both are still tracked.
C30_Witness ==
    /\ call.fn = "on_order_update"
    /\ call.status = "NEW"
    /\ call.client_id = Some(ClientId(1, "buy"))
    /\ call.batches = Registered({1, 2})
    /\ orders_task = "fetch_positions"
    /\ open_batches = Registered({1, 2})

\* C31 (the claim as stated): a batch of which a FILLED or CANCELLED event
\* of a leg was delivered after its request was dispatched, also while
\* submit_orders_batch was pending, is from some time on absent from
\* open_batches.
C31_TerminalEventUntracks ==
    \A b \in 1..MaxBatches :
        [](b \in call.terminal => <>[](b \notin DOMAIN open_batches))

====
